---------------------------- MODULE Spec2Model ----------------------------
(***************************************************************************)
(* Version lifecycle manager of zig-installer: the installation root, the  *)
(* active link, the path codec, the scan, the retention planner and the    *)
(* cleanup commands of internal/installer/cleanup.go, and the switch       *)
(* (SwitchToVersion, UpdateZigSymlink, VerifySwitch).                      *)
(*                                                                         *)
(* Strings are sequences of one-character strings, so that the path codec  *)
(* (strings.Split / strings.Join / filepath.Base / filepath.Dir) is        *)
(* computed character by character, as the code computes it.               *)
(***************************************************************************)
EXTENDS Integers, Sequences, FiniteSets, TLC

VARIABLES
    root,       \* installation root (cfg.ZigDir): entry of every name of DirNames
    rootOk,     \* whether os.ReadDir(cfg.ZigDir) succeeds
    link,       \* the active link cfg.BinDir/zig
    faults,     \* filesystem calls that fail in this run
    cmd,        \* the operation under way
    pc,         \* its position
    versions,   \* []VersionInfo: the scan's result, the planner's input
    err,        \* the error the operation returned ("" is nil)
    keepLast,   \* the keepLast argument / cfg.KeepLast
    dryRun,     \* --dry-run
    autoYes,    \* --yes
    autoCleanup,\* cfg.AutoCleanup (--auto-cleanup)
    mode,       \* the path a cleanup took: "keeplast" or "interactive"
    toRemove,   \* what filterVersionsToKeep returned
    selected,   \* the version strings handed to RemoveVersions
    idx,        \* RemoveVersions: index of the next version of `selected`
    removed,    \* history: the paths os.RemoveAll has deleted
    confirmed,  \* history: the user's answer to ConfirmRemoval ("" before it)
    resolved,   \* what GetCurrentVersion returned: the version and the error
    targetVersion, \* SwitchToVersion: the version asked for
    targetPath,    \* SwitchToVersion: targetVersionInfo.Path
    zigRun,        \* VerifySwitch: exit status and output of `zig version`
    fsBefore,   \* history: the root and the active link when the operation began
    dirName,    \* the path handed to extractVersionFromPath
    decoded,    \* what extractVersionFromPath returned
    sysDirs,    \* the legacy system directories (GetSystemZigDirs)
    sysLinks,   \* the legacy system links /usr/local/bin/zig and zls
    detected,   \* what DetectSystemInstallation returned
    downloads,  \* InstallZig: which of the archive and its signature file exist
    signature,  \* history: the outcome of minisign for the archive
    pcCleanup   \* position of a cleanup that runs next to the switch

fsVars == <<root, rootOk, link, faults>>
argVars == <<cmd, keepLast, dryRun, autoYes, autoCleanup>>
switchVars == <<targetVersion, targetPath, zigRun>>
codecVars == <<dirName, decoded>>
sysVars == <<sysDirs, sysLinks, detected>>
installVars == <<downloads, signature>>

vars == <<root, rootOk, link, faults, cmd, pc, versions, err, keepLast,
          dryRun, autoYes, autoCleanup, mode, toRemove, selected, idx,
          removed, confirmed, resolved, targetVersion, targetPath,
          zigRun, fsBefore, dirName, decoded, sysDirs, sysLinks, detected,
          downloads, signature, pcCleanup>>

---------------------------------------------------------------------------
(* Bounds of the model. *)

\* install dates (directory mtimes) range over 1..MaxTime
MaxTime == 2
\* at most MaxEntries names of DirNames exist in the installation root
MaxEntries == 3
\* at most MaxFaults filesystem calls fail in one run
MaxFaults == 1
\* the planner is given at most MaxRecords records
MaxRecords == 4
\* install dates of the planner's records range over 1..MaxDate
MaxDate == 4
\* keepLast ranges over -1..MaxKeep
MaxKeep == 2
\* the names handed to the path codec have at most MaxNameLen characters
MaxNameLen == 8

---------------------------------------------------------------------------
(* Strings. *)

Min(a, b) == IF a < b THEN a ELSE b

\* strings.HasPrefix
HasPrefix(s, p) == Len(s) >= Len(p) /\ SubSeq(s, 1, Len(p)) = p

\* strings.Split(s, sep) for a one-character separator: the pieces between
\* the separators, empty pieces included; Split("", sep) is one empty piece.
RECURSIVE SplitFrom(_, _, _, _, _)
SplitFrom(s, c, i, cur, acc) ==
    IF i > Len(s) THEN Append(acc, cur)
    ELSE IF s[i] = c THEN SplitFrom(s, c, i + 1, <<>>, Append(acc, cur))
    ELSE SplitFrom(s, c, i + 1, Append(cur, s[i]), acc)

Split(s, c) == SplitFrom(s, c, 1, <<>>, <<>>)

\* strings.Join(parts, sep)
RECURSIVE Join(_, _)
Join(parts, c) ==
    IF Len(parts) = 0 THEN <<>>
    ELSE IF Len(parts) = 1 THEN parts[1]
    ELSE parts[1] \o <<c>> \o Join(Tail(parts), c)

\* index of the last "/" of p, 0 when there is none
RECURSIVE LastSlash(_, _)
LastSlash(p, i) ==
    IF i = 0 THEN 0 ELSE IF p[i] = "/" THEN i ELSE LastSlash(p, i - 1)

\* filepath.Base on a cleaned path (no trailing or doubled separators)
Base(p) ==
    IF p = <<>> THEN <<".">>
    ELSE IF p = <<"/">> THEN <<"/">>
    ELSE SubSeq(p, LastSlash(p, Len(p)) + 1, Len(p))

\* filepath.Dir on a cleaned path
Dir(p) ==
    LET ls == LastSlash(p, Len(p)) IN
    IF ls = 0 THEN <<".">>
    ELSE IF ls = 1 THEN <<"/">>
    ELSE SubSeq(p, 1, ls - 1)

\* filepath.Join(dir, name) of two cleaned, non-empty elements
PathJoin(dir, name) == dir \o <<"/">> \o name

---------------------------------------------------------------------------
(* Path codec. *)

\* faulty variant: three segments are taken as enough
extractVersionFromPath_MinThree(path) ==
    LET parts == Split(Base(path), "-") IN
    IF Len(parts) < 3 THEN <<>>
    ELSE Join(SubSeq(parts, 3, Len(parts)), "-")

\* faulty variant: the version is what follows the last hyphen
extractVersionFromPath_LastSegment(path) ==
    LET parts == Split(Base(path), "-") IN
    IF Len(parts) < 4 THEN <<>>
    ELSE parts[Len(parts)]

extractVersionFromPath(path) ==
    LET parts == Split(Base(path), "-") IN
    IF Len(parts) < 4 THEN <<>>
    ELSE Join(SubSeq(parts, 4, Len(parts)), "-")

---------------------------------------------------------------------------
(* The filesystem. *)

zigDir == <<"/","z">>
binDir == <<"/","b">>
zigBin == <<"z","i","g">>

\* The names an entry of the installation root can have, in the order
\* os.ReadDir returns them (sorted by filename):
\*   zig-l-x            "zig-" prefix, fewer than four segments
\*   zig-l-x-0.12.0
\*   zig-l-x-0.13.0
\*   zig-m-x-0.13.0     decodes to the same version as the one before
\*   zlib-l-x-0.13.0    decodes to 0.13.0, no "zig-" prefix
DirNames == <<
    <<"z","i","g","-","l","-","x">>,
    <<"z","i","g","-","l","-","x","-","0",".","1","2",".","0">>,
    <<"z","i","g","-","l","-","x","-","0",".","1","3",".","0">>,
    <<"z","i","g","-","m","-","x","-","0",".","1","3",".","0">>,
    <<"z","l","i","b","-","l","-","x","-","0",".","1","3",".","0">> >>

Ids == 1..Len(DirNames)

PathOf(i) == PathJoin(zigDir, DirNames[i])

\* what a version directory holds: its files, in walk order
FullLayout ==
    << [name |-> zigBin, size |-> 4], [name |-> <<"s","t","d">>, size |-> 2] >>
Layouts == { <<>>, FullLayout }

NoEntry   == [kind |-> "none", mtime |-> 0, files |-> <<>>]
FileEntry == [kind |-> "file", mtime |-> 0, files |-> <<>>]
DirEntries(layouts) == [kind : {"dir"}, mtime : 1..MaxTime, files : layouts]

Present(r) == {i \in Ids : r[i].kind # "none"}

\* the installation roots whose directories hold one of `layouts`
Roots(layouts) ==
    {r \in [Ids -> {NoEntry, FileEntry} \cup DirEntries(layouts)] :
        Cardinality(Present(r)) <= MaxEntries}

\* the active link: absent, a symbolic link, or a regular file at its path
NoLink == [kind |-> "none", target |-> <<>>]
LinkTargets ==
    {PathJoin(PathOf(i), zigBin) : i \in {2, 3}}
        \cup {<<"/","u","s","r","/","b","i","n","/","z","i","g">>}
Links == {NoLink, [kind |-> "file", target |-> <<>>]}
            \cup [kind : {"symlink"}, target : LinkTargets]

\* a failing call: filepath.Walk of a directory, or DirEntry.Info of an entry
FaultSites(r) == [op : {"walk", "info"}, at : {i \in Ids : r[i].kind = "dir"}]
FaultSets(r) == {f \in SUBSET FaultSites(r) : Cardinality(f) <= MaxFaults}

---------------------------------------------------------------------------
(* The values of the variables an operation does not use. *)

NotResolved == [version |-> <<>>, err |-> ""]

\* `zig version` has not been run
NoRun == [exit |-> -1, output |-> <<>>]

NoSwitchState == targetVersion = <<>> /\ targetPath = <<>> /\ zigRun = NoRun

\* the history variable at the start of an operation
StartsFrom(r, l) == fsBefore = [root |-> r, link |-> l]

NoCodecState == dirName = <<>> /\ decoded = <<>>

NotDetected == [path |-> <<>>, found |-> FALSE]

NoDetectState == sysDirs = <<>> /\ sysLinks = <<>> /\ detected = NotDetected

NoInstallState == downloads = {} /\ signature = "unchecked"

\* no cleanup runs next to the operation
NoRace == pcCleanup = ""

---------------------------------------------------------------------------
(* Scan. *)

RECURSIVE SumSizes(_)
SumSizes(files) ==
    IF files = <<>> THEN 0 ELSE Head(files).size + SumSizes(Tail(files))

\* CalculateDirectorySize: the walk adds up the sizes of the files; a failing
\* walk of the directory returns what it has (nothing) and the error.
CalculateDirectorySize(r, f, i) ==
    IF [op |-> "walk", at |-> i] \in f
    THEN [size |-> 0, err |-> "walk"]
    ELSE [size |-> SumSizes(r[i].files), err |-> ""]

\* faulty variant: a link that does not exist is reported as an error
GetCurrentVersion_ErrorWhenAbsent(l) ==
    IF l.kind # "symlink" THEN [version |-> <<>>, err |-> "readlink"]
    ELSE [version |-> extractVersionFromPath(Dir(l.target)), err |-> ""]

\* GetCurrentVersion: the version and the error. os.Readlink reads the link
\* and does not follow it: it fails with a not-exist error when there is
\* nothing at the path, with another error when what is there is no
\* symbolic link, and succeeds whether or not the target exists.
GetCurrentVersion(l) ==
    IF l.kind = "none" THEN [version |-> <<>>, err |-> ""]
    ELSE IF l.kind # "symlink" THEN [version |-> <<>>, err |-> "readlink"]
    ELSE [version |-> extractVersionFromPath(Dir(l.target)), err |-> ""]

\* sort.Slice(versions, InstallDate.After): for slices of at most 12
\* elements Go's pdqsort is this insertion sort.
RECURSIVE InsertByDate(_, _)
InsertByDate(sorted, v) ==
    IF sorted = <<>> THEN <<v>>
    ELSE LET last == sorted[Len(sorted)] IN
         IF v.InstallDate > last.InstallDate
         THEN Append(InsertByDate(SubSeq(sorted, 1, Len(sorted) - 1), v), last)
         ELSE Append(sorted, v)

\* faulty variant: the records are returned in os.ReadDir's order, unsorted
SortNewestFirst_Unsorted(vs) == vs

RECURSIVE SortNewestFirst(_)
SortNewestFirst(vs) ==
    IF vs = <<>> THEN <<>>
    ELSE InsertByDate(SortNewestFirst(SubSeq(vs, 1, Len(vs) - 1)), vs[Len(vs)])

\* lines 120-121: path and version of each name (evaluated once per name)
EntryVersion == [i \in Ids |-> extractVersionFromPath(PathOf(i))]

\* faulty variant: the "zig-" prefix of the name is not looked at
IsCandidate_AnyPrefix(r, f, i) ==
    /\ r[i].kind = "dir"
    /\ EntryVersion[i] # <<>>
    /\ [op |-> "info", at |-> i] \notin f

\* lines 110-131 of the loop: the entries the scan makes a record of
IsCandidate(r, f, i) ==
    /\ r[i].kind = "dir"
    /\ HasPrefix(DirNames[i], <<"z","i","g","-">>)
    /\ EntryVersion[i] # <<>>
    /\ [op |-> "info", at |-> i] \notin f

\* lines 133-137: the size the record gets
ScanSize(r, f, i) ==
    LET c == CalculateDirectorySize(r, f, i) IN
    IF c.err # "" THEN 0 ELSE c.size

\* line 144
IsCurrentVersion(version, currentVersion) == version = currentVersion

\* lines 139-145
VersionInfo(r, f, i, currentVersion) ==
    [Version     |-> EntryVersion[i],
     Path        |-> PathOf(i),
     Size        |-> ScanSize(r, f, i),
     InstallDate |-> r[i].mtime,
     IsCurrent   |-> IsCurrentVersion(EntryVersion[i], currentVersion)]

\* lines 108-146: the records in os.ReadDir's order (by filename)
RECURSIVE ScanLoop(_, _, _, _)
ScanLoop(r, f, currentVersion, i) ==
    IF i > Len(DirNames) THEN <<>>
    ELSE IF IsCandidate(r, f, i)
         THEN <<VersionInfo(r, f, i, currentVersion)>>
                  \o ScanLoop(r, f, currentVersion, i + 1)
         ELSE ScanLoop(r, f, currentVersion, i + 1)

\* lines 102-106: a failing GetCurrentVersion counts as no current version
ScanCurrentVersion(l) ==
    LET c == GetCurrentVersion(l) IN
    IF c.err # "" THEN <<>> ELSE c.version

\* faulty variant: a root without version directories is reported as an error
ScanInstalledVersions_ErrorWhenEmpty(r, ok, l, f) ==
    IF ~ok THEN [versions |-> <<>>, err |-> "failed to read zig directory"]
    ELSE LET vs == SortNewestFirst(ScanLoop(r, f, ScanCurrentVersion(l), 1)) IN
         IF vs = <<>> THEN [versions |-> <<>>, err |-> "no versions found"]
         ELSE [versions |-> vs, err |-> ""]

\* faulty variant: a failing size computation aborts the scan
ScanInstalledVersions_AbortOnSizeError(r, ok, l, f) ==
    IF ~ok THEN [versions |-> <<>>, err |-> "failed to read zig directory"]
    ELSE IF \E i \in Ids : IsCandidate(r, f, i)
                             /\ CalculateDirectorySize(r, f, i).err # ""
    THEN [versions |-> <<>>, err |-> "failed to calculate size"]
    ELSE [versions |-> SortNewestFirst(ScanLoop(r, f, ScanCurrentVersion(l), 1)),
          err |-> ""]

\* faulty variant: a failing GetCurrentVersion fails the scan
ScanInstalledVersions_PropagateLinkError(r, ok, l, f) ==
    IF ~ok THEN [versions |-> <<>>, err |-> "failed to read zig directory"]
    ELSE IF GetCurrentVersion(l).err # ""
    THEN [versions |-> <<>>, err |-> GetCurrentVersion(l).err]
    ELSE [versions |-> SortNewestFirst(ScanLoop(r, f, ScanCurrentVersion(l), 1)),
          err |-> ""]

ScanInstalledVersions(r, ok, l, f) ==
    IF ~ok THEN [versions |-> <<>>, err |-> "failed to read zig directory"]
    ELSE [versions |-> SortNewestFirst(ScanLoop(r, f, ScanCurrentVersion(l), 1)),
          err |-> ""]

---------------------------------------------------------------------------
(* Retention planner. *)

\* faulty variant: keepLast = 0 is not taken as "no automatic removals"
PlannerDisabled_OnlyNegative(n) == n < 0

\* line 204
PlannerDisabled(n) == n <= 0

\* faulty variant: the caller's order is trusted ("if not already sorted")
PlannerSort_Trusting(vs) == vs

\* lines 208-213
PlannerSort(vs) == SortNewestFirst(vs)

\* faulty variant: the current version is a record like any other
SkipsCurrent_Never(v) == FALSE

\* line 220
SkipsCurrent(v) == v.IsCurrent

\* faulty variant: one record too many is kept
WithinBudget_OffByOne(kept, n) == kept <= n

\* line 224
WithinBudget(kept, n) == kept < n

\* faulty variant: the current version uses up one place of the keepLast budget
RECURSIVE FilterWalk_CurrentCounts(_, _, _)
FilterWalk_CurrentCounts(sorted, n, kept) ==
    IF sorted = <<>> THEN <<>>
    ELSE LET v == Head(sorted) IN
         IF SkipsCurrent(v) THEN FilterWalk_CurrentCounts(Tail(sorted), n, kept + 1)
         ELSE IF WithinBudget(kept, n)
              THEN FilterWalk_CurrentCounts(Tail(sorted), n, kept + 1)
              ELSE <<v>> \o FilterWalk_CurrentCounts(Tail(sorted), n, kept)

\* lines 215-229: the loop over the sorted records
RECURSIVE FilterWalk(_, _, _)
FilterWalk(sorted, n, kept) ==
    IF sorted = <<>> THEN <<>>
    ELSE LET v == Head(sorted) IN
         IF SkipsCurrent(v) THEN FilterWalk(Tail(sorted), n, kept)
         ELSE IF WithinBudget(kept, n)
              THEN FilterWalk(Tail(sorted), n, kept + 1)
              ELSE <<v>> \o FilterWalk(Tail(sorted), n, kept)

\* the versions that should be REMOVED
filterVersionsToKeep(vs, n) ==
    IF PlannerDisabled(n) THEN <<>>
    ELSE FilterWalk(PlannerSort(vs), n, 0)

---------------------------------------------------------------------------
(* Specification of the planner alone: any list of records, in any order,  *)
(* any keepLast; one call of filterVersionsToKeep.                         *)

\* the directories of the four versions of the README's example
PlanNames == <<
    <<"z","i","g","-","l","-","x","-","0",".","1","0",".","1">>,
    <<"z","i","g","-","l","-","x","-","0",".","1","1",".","0">>,
    <<"z","i","g","-","l","-","x","-","0",".","1","2",".","0">>,
    <<"z","i","g","-","l","-","x","-","0",".","1","3",".","0">> >>

PlanRecord(i, date, current) ==
    [Version     |-> extractVersionFromPath(PathJoin(zigDir, PlanNames[i])),
     Path        |-> PathJoin(zigDir, PlanNames[i]),
     Size        |-> SumSizes(FullLayout),
     InstallDate |-> date,
     IsCurrent   |-> current]

PlanRecords ==
    {PlanRecord(i, d, c) : i \in 1..Len(PlanNames), d \in 1..MaxDate, c \in BOOLEAN}

\* the lists of at most MaxRecords records of distinct directories
RECURSIVE RecordLists(_)
RecordLists(n) ==
    IF n = 0 THEN {<<>>}
    ELSE LET shorter == RecordLists(n - 1) IN
         shorter \cup
         {Append(l, v) : <<l, v>> \in
             {<<l, v>> \in shorter \X PlanRecords :
                 /\ Len(l) = n - 1
                 /\ \A k \in 1..Len(l) : l[k].Path # v.Path}}

PlanInputs == RecordLists(Min(MaxRecords, Len(PlanNames)))

InitPlan ==
    /\ versions \in PlanInputs
    /\ keepLast \in (-1)..MaxKeep
    /\ cmd = "plan" /\ pc = "start"
    /\ root = [i \in Ids |-> NoEntry] /\ rootOk = TRUE /\ link = NoLink
    /\ faults = {} /\ err = ""
    /\ dryRun = FALSE /\ autoYes = FALSE /\ autoCleanup = FALSE /\ mode = ""
    /\ toRemove = <<>> /\ selected = <<>> /\ idx = 0 /\ removed = {}
    /\ confirmed = "" /\ resolved = NotResolved
    /\ NoSwitchState /\ NoCodecState /\ StartsFrom(root, link)
    /\ NoDetectState /\ NoInstallState /\ NoRace

Plan ==
    /\ cmd = "plan" /\ pc = "start"
    /\ toRemove' = filterVersionsToKeep(versions, keepLast)
    /\ pc' = "planned"
    /\ UNCHANGED <<fsVars, argVars, versions, err, mode, selected, idx, removed,
                 confirmed, resolved, switchVars, fsBefore, codecVars,
                 sysVars, installVars, pcCleanup>>

NextPlan == Plan

SpecPlan == InitPlan /\ [][NextPlan]_vars

---------------------------------------------------------------------------
(* Specification of the scan alone: any installation root, any active      *)
(* link, any failing call; one call of ScanInstalledVersions.              *)

NoCommandState ==
    /\ keepLast = 0 /\ dryRun = FALSE /\ autoYes = FALSE
    /\ autoCleanup = FALSE /\ mode = ""
    /\ toRemove = <<>> /\ selected = <<>> /\ idx = 0 /\ removed = {}
    /\ confirmed = "" /\ resolved = NotResolved
    /\ NoSwitchState /\ NoCodecState /\ StartsFrom(root, link)
    /\ NoDetectState /\ NoInstallState /\ NoRace

InitScan ==
    /\ root \in Roots({FullLayout})
    \* a root that cannot be read (it does not exist) has no entries
    /\ rootOk \in (IF Present(root) = {} THEN BOOLEAN ELSE {TRUE})
    /\ link \in Links
    /\ faults \in FaultSets(root)
    /\ cmd = "scan" /\ pc = "start"
    /\ versions = <<>> /\ err = ""
    /\ NoCommandState

Scan ==
    /\ cmd = "scan" /\ pc = "start"
    /\ \E s \in {ScanInstalledVersions(root, rootOk, link, faults)} :
         /\ versions' = s.versions
         /\ err' = s.err
    /\ resolved' = GetCurrentVersion(link)
    /\ pc' = "scanned"
    /\ UNCHANGED <<fsVars, argVars, mode, toRemove, selected, idx, removed,
                 confirmed, switchVars, fsBefore, codecVars,
                 sysVars, installVars, pcCleanup>>

NextScan == Scan

SpecScan == InitScan /\ [][NextScan]_vars

---------------------------------------------------------------------------
(* Claims about the retention planner (checked under SpecPlan). *)

Planned == cmd = "plan" /\ pc = "planned"

ToSet(seq) == {seq[k] : k \in 1..Len(seq)}

VersionsOf(seq) == {seq[k].Version : k \in 1..Len(seq)}

NonActive(seq) == {v \in ToSet(seq) : ~v.IsCurrent}

\* the same records in the order of their directory names
RECURSIVE ByName(_, _)
ByName(seq, i) ==
    IF i > Len(PlanNames) THEN <<>>
    ELSE SelectSeq(seq, LAMBDA v : v.Path = PathJoin(zigDir, PlanNames[i]))
             \o ByName(seq, i + 1)

V0_10_1 == <<"0",".","1","0",".","1">>
V0_11_0 == <<"0",".","1","1",".","0">>
V0_12_0 == <<"0",".","1","2",".","0">>
V0_13_0 == <<"0",".","1","3",".","0">>

\* 0.13.0 (newest, active), 0.12.0, 0.11.0, 0.10.1 (oldest)
FourVersions ==
    {PlanRecord(4, 4, TRUE), PlanRecord(3, 3, FALSE),
     PlanRecord(2, 2, FALSE), PlanRecord(1, 1, FALSE)}

\* C1: whatever the records and keepLast, no record of the removal set is
\* marked current.
C1_ActiveNeverPlanned ==
    Planned => \A k \in 1..Len(toRemove) : ~toRemove[k].IsCurrent

\* records are removed although the oldest record of the input is current
C1_Witness ==
    /\ Planned /\ toRemove # <<>>
    /\ \E a \in ToSet(versions) :
          /\ a.IsCurrent
          /\ \A v \in ToSet(versions) \ {a} : v.InstallDate > a.InstallDate

C5_NoAutomaticRemovals == (Planned /\ keepLast <= 0) => toRemove = <<>>

C5_Witness ==
    /\ Planned /\ keepLast = 0
    /\ Cardinality(NonActive(versions)) >= 2
    /\ toRemove = <<>>

\* C6 as claimed: the removal set is the same in whatever order the records
\* are supplied (every order is compared with the order by directory name),
\* also when records share an install date.
C6_OrderIndependent ==
    Planned =>
        ToSet(toRemove) =
            ToSet(filterVersionsToKeep(ByName(versions, 1), keepLast))

\* C6 amended: the removal set is the same in whatever order the records
\* are supplied, provided no two non-active records share an install date.
C6_OrderIndependentDistinctDates ==
    (Planned /\ \A a, b \in NonActive(versions) :
                    a # b => a.InstallDate # b.InstallDate) =>
        ToSet(toRemove) =
            ToSet(filterVersionsToKeep(ByName(versions, 1), keepLast))

\* records supplied newest last, not in the order of their names, and some
\* of them removed
C6_Witness ==
    /\ Planned /\ Len(versions) >= 3 /\ toRemove # <<>>
    /\ versions # ByName(versions, 1)
    /\ \A k \in 1..(Len(versions) - 1) :
          versions[k].InstallDate < versions[k + 1].InstallDate

---------------------------------------------------------------------------
(* Claims about the scan (checked under SpecScan). *)

ScanDone == cmd = "scan" /\ pc = "scanned"

\* the records of `versions` that are marked current
CurrentRecords == {k \in 1..Len(versions) : versions[k].IsCurrent}

\* the directories of the root that follow the naming convention
Recognizable(r) ==
    {i \in Ids : /\ r[i].kind = "dir"
                 /\ SubSeq(DirNames[i], 1, 4) = <<"z","i","g","-">>
                 /\ Len(Split(DirNames[i], "-")) >= 4}

\* the candidates whose size computation fails
SizeFailed ==
    {i \in Recognizable(root) :
        /\ [op |-> "walk", at |-> i] \in faults
        /\ [op |-> "info", at |-> i] \notin faults}

\* C7: the result of a scan holds at most one record marked active, also
\* when several directories decode to the same version.
C7_AtMostOneActive == ScanDone => Cardinality(CurrentRecords) <= 1

\* C8: the result of a scan is sorted by install date, newest first: of two
\* adjacent records the earlier one's date is not before the later one's.
C8_ScanSortedNewestFirst ==
    ScanDone =>
        \A k \in 1..(Len(versions) - 1) :
            versions[k].InstallDate >= versions[k + 1].InstallDate

\* three records, and the one os.ReadDir lists last is the newest
C8_Witness ==
    /\ ScanDone
    /\ Len(versions) = 3
    /\ versions[1].Path = PathOf(4)
    /\ versions[1].InstallDate > versions[3].InstallDate

\* C9: the scan of a readable root without a recognizable version directory
\* returns the empty sequence and no error.
C9_EmptyRootNoError ==
    (ScanDone /\ rootOk /\ Recognizable(root) = {}) =>
        (versions = <<>> /\ err = "")

\* a root that holds entries, none of them a version directory
C9_Witness ==
    /\ ScanDone /\ rootOk
    /\ Recognizable(root) = {}
    /\ \E i \in Ids : root[i].kind = "dir"
    /\ \E i \in Ids : root[i].kind = "file"
    /\ versions = <<>> /\ err = ""

\* C10 as claimed: a failing size computation of a candidate aborts the
\* scan with an error.
C10_SizeErrorAbortsScan == (ScanDone /\ SizeFailed # {}) => err # ""

\* C10 as the code has it: a failing size computation does not abort the
\* scan; it returns no error and the candidate's record has size 0.
C10_SizeErrorReportsZero ==
    (ScanDone /\ SizeFailed # {}) =>
        /\ err = ""
        /\ \A i \in SizeFailed :
              \E k \in 1..Len(versions) :
                  versions[k].Path = PathOf(i) /\ versions[k].Size = 0

\* a directory that holds 6 bytes is reported with size 0, next to a
\* directory whose size was computed
C10_Witness ==
    /\ ScanDone
    /\ \E i \in SizeFailed : SumSizes(root[i].files) > 0
    /\ \E k \in 1..Len(versions) : versions[k].Size > 0

\* the directories a scan is to report: named by the convention, and
\* DirEntry.Info succeeds
Qualifying ==
    {i \in Recognizable(root) : [op |-> "info", at |-> i] \notin faults}

\* C24: the scan of a readable root returns exactly one record per
\* directory of the root whose name starts with "zig-" and decodes to a
\* version and whose metadata can be read; files, other directories,
\* undecodable names and candidates whose stat fails are skipped, and the
\* scan returns no error.
C24_OneRecordPerQualifying ==
    (ScanDone /\ rootOk) =>
        /\ err = ""
        /\ Len(versions) = Cardinality(Qualifying)
        /\ {versions[k].Path : k \in 1..Len(versions)}
               = {PathOf(i) : i \in Qualifying}
        /\ \A k \in 1..Len(versions) :
              \E i \in Qualifying :
                  /\ versions[k].Path = PathOf(i)
                  /\ versions[k].Version = EntryVersion[i]

\* a file, a version directory whose stat fails and a version directory
\* that is reported
C24_Witness ==
    /\ ScanDone /\ rootOk
    /\ \E i \in Ids : root[i].kind = "file"
    /\ \E i \in Recognizable(root) : [op |-> "info", at |-> i] \in faults
    /\ Len(versions) = 1 /\ err = ""

\* C11: when the active link does not exist, GetCurrentVersion returns the
\* empty version and no error, and the scan marks no record active.
C11_NoLinkNoActive ==
    (ScanDone /\ link.kind = "none") =>
        /\ resolved = [version |-> <<>>, err |-> ""]
        /\ CurrentRecords = {}

\* no link, and a scan that returned records
C11_Witness ==
    /\ ScanDone /\ link.kind = "none"
    /\ Len(versions) >= 2
    /\ resolved.err = "" /\ CurrentRecords = {}

\* the names whose directory the active link points into while the root
\* holds no such directory: the link is broken
DanglingAt ==
    {i \in Ids : /\ link.kind = "symlink"
                 /\ link.target = PathOf(i) \o <<"/">> \o zigBin
                 /\ root[i].kind # "dir"}

\* reading the link fails for another reason than its absence
LinkUnreadable == link.kind = "file"

\* C12 as claimed: when the active link is broken, or reading it fails for
\* another reason than its absence, resolving the active version yields
\* the empty version, and the scan does not fail on that account.
C12_BrokenLinkYieldsEmpty ==
    (ScanDone /\ (DanglingAt # {} \/ LinkUnreadable)) =>
        /\ resolved.version = <<>>
        /\ rootOk => err = ""

\* C12 as the code has it: a broken link is read without error and
\* resolves to the version its target path names, and the records of that
\* version are marked active; when reading the link fails for another
\* reason than its absence, GetCurrentVersion returns the empty version with
\* an error and the scan marks no record active. In neither case does the
\* scan fail on that account.
C12_BrokenLinkTolerated ==
    ScanDone =>
        /\ \A i \in DanglingAt :
              /\ resolved = [version |-> EntryVersion[i], err |-> ""]
              /\ \A k \in 1..Len(versions) :
                    versions[k].IsCurrent <=> versions[k].Version = EntryVersion[i]
        /\ LinkUnreadable =>
              /\ resolved.version = <<>> /\ resolved.err # ""
              /\ CurrentRecords = {}
        /\ (DanglingAt # {} \/ LinkUnreadable) => (rootOk => err = "")

\* the link points into a directory that is gone, the scan returns records
\* and the version of the directory that is gone
C12_Witness ==
    /\ ScanDone /\ DanglingAt # {}
    /\ Len(versions) >= 1 /\ err = ""
    /\ resolved.version # <<>>

---------------------------------------------------------------------------
(* The cleanup commands: CleanupCommand (`cleanup`) and AutoCleanupPrompt   *)
(* (after an install). Each stops where it waits for the user.             *)

CurrentSuffix ==
    <<" ","(","c","u","r","r","e","n","t"," ","v","e","r","s","i","o","n",
      " ","-"," ","c","a","n","n","o","t"," ","b","e"," ","r","e","m","o",
      "v","e","d",")">>

\* PromptVersionSelection lines 244-251: the option shown for a record
OptionOf(v) == IF v.IsCurrent THEN v.Version \o CurrentSuffix ELSE v.Version

\* lines 266-270: the version of a selected option
CleanOption(option) == Split(option, " ")[1]

\* the prompt the README describes: the current version cannot be ticked
Selectable_NotCurrent(vs) == {k \in 1..Len(vs) : ~vs[k].IsCurrent}

\* lines 255-262: the multi-select offers every option; disabledOptions is
\* filled and never read
Selectable(vs) == 1..Len(vs)

\* the options the user ticked, cleaned, in the order of the options
RECURSIVE CleanedSelection(_, _, _)
CleanedSelection(vs, ticked, k) ==
    IF k > Len(vs) THEN <<>>
    ELSE IF k \in ticked
         THEN <<CleanOption(OptionOf(vs[k]))>> \o CleanedSelection(vs, ticked, k + 1)
         ELSE CleanedSelection(vs, ticked, k + 1)

\* lines 412-415, 622-627: versionNames
RECURSIVE VersionNames(_)
VersionNames(rs) ==
    IF rs = <<>> THEN <<>> ELSE <<Head(rs).Version>> \o VersionNames(Tail(rs))

\* faulty variant: the last directory, whatever its name decodes to
DirToRemove_LastDirectory(r, version, i) ==
    IF \E j \in Ids : r[j].kind = "dir"
    THEN CHOOSE j \in Ids : r[j].kind = "dir" /\ \A k \in Ids : r[k].kind = "dir" => k <= j
    ELSE 0

\* RemoveVersions lines 303-316: the first directory, in os.ReadDir's order,
\* whose name decodes to the version; 0 when there is none
RECURSIVE DirToRemove(_, _, _)
DirToRemove(r, version, i) ==
    IF i > Len(DirNames) THEN 0
    ELSE IF r[i].kind = "dir" /\ EntryVersion[i] = version THEN i
    ELSE DirToRemove(r, version, i + 1)

Finish(e) == pc' = "done" /\ err' = e

\* faulty variant: --dry-run is not looked at
DryRunStops_Ignored(c, dry) == FALSE

\* "Dry run mode" (lines 556-563 of CleanupCommand, 633-637 of
\* cleanupWithKeepLast): the command reports and returns; AutoCleanupPrompt
\* has no dry run
DryRunStops(c, dry) == c = "cleanup" /\ dry

\* CleanupCommand up to its first prompt (lines 492-543), cleanupWithKeepLast
\* up to its confirmation (lines 595-651)
CleanupStart ==
    /\ cmd = "cleanup" /\ pc = "start"
    /\ \E s \in {ScanInstalledVersions(root, rootOk, link, faults)} :
       \E rm \in {filterVersionsToKeep(s.versions, keepLast)} :
       /\ versions' = s.versions
       /\ IF s.err # ""
          THEN Finish("failed to scan versions") /\ UNCHANGED <<mode, toRemove, selected, idx>>
          ELSE IF Len(s.versions) = 0 \/ NonActive(s.versions) = {}
          THEN Finish("") /\ UNCHANGED <<mode, toRemove, selected, idx>>
          ELSE IF keepLast > 0
          THEN /\ mode' = "keeplast"
               /\ toRemove' = rm
               /\ IF Len(rm) = 0 \/ DryRunStops(cmd, dryRun)
                  THEN Finish("") /\ UNCHANGED <<selected, idx>>
                  ELSE /\ selected' = VersionNames(rm)
                       /\ idx' = 1
                       /\ pc' = IF autoYes THEN "remove" ELSE "confirm"
                       /\ err' = ""
          ELSE /\ mode' = "interactive"
               /\ pc' = "select" /\ err' = ""
               /\ UNCHANGED <<toRemove, selected, idx>>
    /\ UNCHANGED <<fsVars, argVars, removed,
                 confirmed, resolved, switchVars, fsBefore, codecVars,
                 sysVars, installVars, pcCleanup>>

\* AutoCleanupPrompt up to its first prompt (lines 340-394),
\* autoCleanupWithKeepLast up to RemoveVersions (lines 397-421)
AutoCleanupStart ==
    /\ cmd = "autoprompt" /\ pc = "start"
    /\ \E s \in {ScanInstalledVersions(root, rootOk, link, faults)} :
       \E rm \in {filterVersionsToKeep(s.versions, keepLast)} :
       /\ versions' = s.versions
       /\ IF s.err # ""
          THEN Finish("failed to scan versions") /\ UNCHANGED <<mode, toRemove, selected, idx>>
          ELSE IF NonActive(s.versions) = {}
          THEN Finish("") /\ UNCHANGED <<mode, toRemove, selected, idx>>
          ELSE IF autoCleanup /\ keepLast > 0
          THEN /\ mode' = "keeplast"
               /\ toRemove' = rm
               /\ IF Len(rm) = 0
                  THEN Finish("") /\ UNCHANGED <<selected, idx>>
                  ELSE /\ selected' = VersionNames(rm)
                       /\ idx' = 1
                       /\ pc' = "remove" /\ err' = ""
          ELSE /\ mode' = "interactive"
               /\ pc' = IF autoCleanup THEN "select" ELSE "ask"
               /\ err' = ""
               /\ UNCHANGED <<toRemove, selected, idx>>
    /\ UNCHANGED <<fsVars, argVars, removed,
                 confirmed, resolved, switchVars, fsBefore, codecVars,
                 sysVars, installVars, pcCleanup>>

\* "Clean up old versions?" (lines 377-393)
AskCleanup ==
    /\ pc = "ask"
    /\ \E answer \in {"yes", "no", "interrupt"} :
          IF answer = "interrupt" THEN Finish("interrupt")
          ELSE IF answer = "no" THEN Finish("")
          ELSE pc' = "select" /\ err' = ""
    /\ UNCHANGED <<fsVars, argVars, versions, mode, toRemove, selected, idx, removed,
                 confirmed, resolved, switchVars, fsBefore, codecVars,
                 sysVars, installVars, pcCleanup>>

\* PromptVersionSelection and what follows it up to the confirmation
\* (lines 442-452 of interactiveCleanup, 533-577 of CleanupCommand)
SelectVersions ==
    /\ pc = "select"
    /\ \/ /\ Finish("failed to get selection")
          /\ UNCHANGED <<selected, idx>>
       \/ \E ticked \in SUBSET Selectable(versions) :
            LET cleaned == CleanedSelection(versions, ticked, 1) IN
            /\ selected' = cleaned
            /\ idx' = 1
            /\ IF Len(cleaned) = 0 THEN Finish("")
               ELSE IF DryRunStops(cmd, dryRun) THEN Finish("")
               ELSE /\ pc' = IF cmd = "cleanup" /\ autoYes THEN "remove" ELSE "confirm"
                    /\ err' = ""
    /\ UNCHANGED <<fsVars, argVars, versions, mode, toRemove, removed,
                 confirmed, resolved, switchVars, fsBefore, codecVars,
                 sysVars, installVars, pcCleanup>>

\* ConfirmRemoval (lines 276-290) and its callers' reaction
Confirm ==
    /\ pc = "confirm"
    /\ \E answer \in {"yes", "no", "interrupt"} :
          /\ confirmed' = answer
          /\ IF answer = "interrupt" THEN Finish("failed to get confirmation")
             ELSE IF answer = "no" THEN Finish("")
             ELSE pc' = "remove" /\ err' = ""
    /\ UNCHANGED <<fsVars, argVars, versions, mode, toRemove, selected, idx, removed,
                 resolved, switchVars, fsBefore, codecVars,
                 sysVars, installVars, pcCleanup>>

\* faulty variant: the directory is gone whether or not the call fails
RemoveAll_AlwaysGone(r, i, outcome) == [r EXCEPT ![i] = NoEntry]

\* os.RemoveAll(dirToRemove) (line 328): the directory is removed, or the
\* call fails and leaves the directory, with its files or without them
RemoveAllOutcomes == {"removed", "failed", "emptied"}
RemoveAll(r, i, outcome) ==
    IF outcome = "removed" THEN [r EXCEPT ![i] = NoEntry]
    ELSE IF outcome = "emptied" THEN [r EXCEPT ![i].files = <<>>]
    ELSE r

\* RemoveVersions (lines 293-337): one round of its loop. `result` is "next"
\* when the loop goes on, "return" at its end, else the error returned
RemoveResults ==
    {"next", "return", "failed to read zig directory", "failed to remove"}
RemoveRound(result) ==
    IF idx > Len(selected)
    THEN result = "return" /\ UNCHANGED <<root, idx, removed>>
    ELSE IF ~rootOk
    THEN result = "failed to read zig directory" /\ UNCHANGED <<root, idx, removed>>
    ELSE LET i == DirToRemove(root, selected[idx], 1) IN
         IF i = 0
         THEN result = "next" /\ idx' = idx + 1 /\ UNCHANGED <<root, removed>>
         ELSE \E outcome \in RemoveAllOutcomes :
                /\ root' = RemoveAll(root, i, outcome)
                /\ IF outcome = "removed"
                   THEN /\ result = "next"
                        /\ idx' = idx + 1
                        /\ removed' = removed \cup {PathOf(i)}
                   ELSE /\ result = "failed to remove"
                        /\ UNCHANGED <<idx, removed>>

\* RemoveVersions (lines 293-337) in a cleanup: one round, and its return
RemoveNext ==
    /\ pc = "remove"
    /\ \E result \in RemoveResults :
          /\ RemoveRound(result)
          /\ IF result = "next" THEN pc' = "remove" /\ err' = ""
             ELSE Finish(IF result = "return" THEN "" ELSE result)
    /\ UNCHANGED <<rootOk, link, faults, argVars, versions, mode, toRemove, selected,
                 confirmed, resolved, switchVars, fsBefore, codecVars,
                 sysVars, installVars, pcCleanup>>

Init ==
    /\ root \in Roots({FullLayout})
    /\ rootOk \in (IF Present(root) = {} THEN BOOLEAN ELSE {TRUE})
    /\ link \in Links
    /\ faults = {}
    /\ cmd \in {"cleanup", "autoprompt"}
    /\ keepLast \in 0..MaxKeep
    /\ dryRun \in (IF cmd = "cleanup" THEN BOOLEAN ELSE {FALSE})
    /\ autoYes \in (IF cmd = "cleanup" THEN BOOLEAN ELSE {FALSE})
    /\ autoCleanup \in (IF cmd = "autoprompt" THEN BOOLEAN ELSE {FALSE})
    /\ pc = "start" /\ mode = ""
    /\ versions = <<>> /\ err = ""
    /\ toRemove = <<>> /\ selected = <<>> /\ idx = 0 /\ removed = {}
    /\ confirmed = "" /\ resolved = NotResolved
    /\ NoSwitchState /\ NoCodecState /\ StartsFrom(root, link)
    /\ NoDetectState /\ NoInstallState /\ NoRace

Next ==
    \/ CleanupStart
    \/ AutoCleanupStart
    \/ AskCleanup
    \/ SelectVersions
    \/ Confirm
    \/ RemoveNext

Spec == Init /\ [][Next]_vars

---------------------------------------------------------------------------
(* Claims about the cleanup commands (checked under Spec). *)

\* the directory the active link points into
ActiveDir == IF link.kind = "symlink" THEN {Dir(link.target)} ELSE {}

\* C2: on the interactive paths the directory of the version the active
\* link points to is never deleted, whatever the user selects and confirms.
C2_InteractiveKeepsActive ==
    mode = "interactive" => ActiveDir \cap removed = {}

\* C18: under --dry-run, with nothing selected for removal, or with the
\* confirmation declined, a cleanup deletes nothing: the installation root
\* and the active link are as they were when it began, on the interactive
\* and on the keep-last path.
C18_NothingDeleted ==
    (dryRun \/ selected = <<>> \/ confirmed = "no") =>
        /\ root = fsBefore.root
        /\ link = fsBefore.link
        /\ removed = {}

\* a dry run on the keep-last path that planned removals and returned
C18_Witness ==
    /\ cmd = "cleanup" /\ pc = "done" /\ mode = "keeplast"
    /\ dryRun /\ autoYes
    /\ toRemove # <<>>
    /\ root = fsBefore.root /\ removed = {}

---------------------------------------------------------------------------
(* The switch: SwitchToVersion, UpdateZigSymlink and VerifySwitch. The     *)
(* switch stops before each call that changes the active link and before   *)
(* the run of `zig version`.                                               *)

\* faulty variant: every output is taken to name the expected version
Contains_Always(text, substr) == TRUE

\* strings.Contains
Contains(text, substr) ==
    \E k \in 0..(Len(text) - Len(substr)) :
        SubSeq(text, k + 1, k + Len(substr)) = substr

IsSpace(c) == c \in {" ", "\n", "\t", "\r"}

\* strings.TrimSpace
RECURSIVE TrimSpace(_)
TrimSpace(text) ==
    IF text = <<>> THEN <<>>
    ELSE IF IsSpace(Head(text)) THEN TrimSpace(Tail(text))
    ELSE IF IsSpace(text[Len(text)]) THEN TrimSpace(SubSeq(text, 1, Len(text) - 1))
    ELSE text

\* the versions a switch is asked for: one that directories of DirNames
\* decode to, and one that no directory decodes to
TargetVersions == { <<"0",".","1","3",".","0">>, <<"0",".","1","1",".","0">> }

\* the roots of the switch: version directories with and without the binary
SwitchRoots ==
    {r \in [Ids -> {NoEntry} \cup DirEntries(Layouts)] :
        Cardinality(Present(r)) <= MaxEntries}

\* a failing call of UpdateZigSymlink: os.Remove or os.Symlink of the link
SwitchFaultSites == {[op |-> "remove", at |-> 0], [op |-> "symlink", at |-> 0]}
SwitchFaultSets == {f \in SUBSET SwitchFaultSites : Cardinality(f) <= MaxFaults}

\* the name whose path is p, 0 when p is no path of the root
IndexOfPath(p) ==
    IF \E i \in Ids : PathOf(i) = p THEN CHOOSE i \in Ids : PathOf(i) = p ELSE 0

\* faulty variant: the binary is not looked for
BinaryFound_Unchecked(r, zigBinPath) == TRUE

\* UpdateZigSymlink lines 633-639: os.Stat(zigBinPath) succeeds
BinaryFound(r, zigBinPath) ==
    LET i == IndexOfPath(Dir(zigBinPath)) IN
    /\ i # 0
    /\ r[i].kind = "dir"
    /\ \E k \in 1..Len(r[i].files) : r[i].files[k].name = Base(zigBinPath)

\* faulty variant: the link is made to the version directory
NewLink_ToDirectory(versionPath) == [kind |-> "symlink", target |-> versionPath]

\* UpdateZigSymlink lines 633, 653: os.Symlink(zigBinPath, linkPath)
NewLink(versionPath) ==
    [kind |-> "symlink", target |-> PathJoin(versionPath, zigBin)]

\* faulty variant: a version that is not installed falls back to the newest
RECURSIVE FindVersion_FallbackFirst(_, _, _)
FindVersion_FallbackFirst(vs, version, k) ==
    IF k > Len(vs) THEN 1
    ELSE IF vs[k].Version = version THEN k
    ELSE FindVersion_FallbackFirst(vs, version, k + 1)

\* SwitchToVersion lines 554-560: the first record of the version, 0 for nil
RECURSIVE FindVersion(_, _, _)
FindVersion(vs, version, k) ==
    IF k > Len(vs) THEN 0
    ELSE IF vs[k].Version = version THEN k
    ELSE FindVersion(vs, version, k + 1)

\* faulty variant: a switch to the version in use is a no-op
AlreadyActiveReturns_NoOp(currentVersion, version) == currentVersion = version

\* SwitchToVersion lines 568-572: "Already active" is a warning; the switch
\* goes on
AlreadyActiveReturns(currentVersion, version) == FALSE

\* what the binary a link leads to prints for `zig version`: the version of
\* its directory, a development build of it, or another version
OtherOutput == <<"0",".","1","4",".","0","\n">>
ZigOutputs(l) ==
    LET v == EntryVersion[IndexOfPath(Dir(l.target))] IN
    {v \o <<"\n">>, v \o <<"-","d","e","v","\n">>, OtherOutput}

\* exec.Command(zigPath, "version"): the runs the link allows. A link whose
\* target is missing cannot be run.
ZigRuns(r, l) ==
    IF l.kind = "symlink" /\ BinaryFound(r, l.target)
    THEN {[exit |-> 1, output |-> <<>>]} \cup [exit : {0}, output : ZigOutputs(l)]
    ELSE {[exit |-> 1, output |-> <<>>]}

\* SwitchToVersion up to the call of UpdateZigSymlink (lines 530-572)
SwitchStart ==
    /\ cmd = "switch" /\ pc = "start"
    /\ \E s \in {ScanInstalledVersions(root, rootOk, link, faults)} :
       LET k == FindVersion(s.versions, targetVersion, 1)
           c == GetCurrentVersion(link)
       IN
       /\ versions' = s.versions
       /\ IF s.err # ""
          THEN Finish("failed to scan installed versions") /\ UNCHANGED <<targetPath, resolved>>
          ELSE IF Len(s.versions) = 0
          THEN Finish("no Zig versions installed") /\ UNCHANGED <<targetPath, resolved>>
          ELSE IF Len(s.versions) = 1
          THEN Finish("only one version installed") /\ UNCHANGED <<targetPath, resolved>>
          ELSE IF k = 0
          THEN Finish("version is not installed") /\ UNCHANGED <<targetPath, resolved>>
          ELSE /\ targetPath' = s.versions[k].Path
               /\ resolved' = c
               /\ IF AlreadyActiveReturns(c.version, targetVersion)
                  THEN Finish("")
                  ELSE pc' = "update" /\ err' = ""
    /\ UNCHANGED <<fsVars, argVars, mode, toRemove, selected, idx, removed,
                 confirmed, targetVersion, zigRun, fsBefore, codecVars,
                 sysVars, installVars, pcCleanup>>

\* faulty variant: os.Stat, which follows the link to its target
LinkExists_FollowsLink(r, l) ==
    \/ l.kind = "file"
    \/ /\ l.kind = "symlink"
       /\ (IndexOfPath(Dir(l.target)) = 0 \/ BinaryFound(r, l.target))

\* os.Lstat(linkPath) succeeds (line 644): something is at the link's path,
\* whether or not a link's target exists
LinkExists(r, l) == l.kind # "none"

\* faulty variant: the old link stays where it is
RemoveLink_KeepsLink(l) == l

\* os.Remove(zigLink) (line 647), when it succeeds
RemoveLink(l) == NoLink

\* UpdateZigSymlink up to the removal of the old link (lines 629-650)
UpdateRemove ==
    /\ cmd = "switch" /\ pc = "update"
    /\ IF ~BinaryFound(root, PathJoin(targetPath, zigBin))
       THEN Finish("zig binary not found") /\ UNCHANGED link
       ELSE IF ~LinkExists(root, link)
       THEN pc' = "create" /\ err' = "" /\ UNCHANGED link
       ELSE IF [op |-> "remove", at |-> 0] \in faults
       THEN Finish("could not remove existing symlink") /\ UNCHANGED link
       ELSE pc' = "create" /\ err' = "" /\ link' = RemoveLink(link)
    /\ UNCHANGED <<root, rootOk, faults, argVars, versions, mode, toRemove,
                 selected, idx, removed, confirmed, resolved, switchVars,
                 fsBefore, codecVars,
                 sysVars, installVars, pcCleanup>>

\* UpdateZigSymlink: the creation of the new link (lines 652-659)
UpdateCreate ==
    /\ cmd = "switch" /\ pc = "create"
    /\ IF link.kind # "none" \/ [op |-> "symlink", at |-> 0] \in faults
       THEN Finish("could not create symbolic link") /\ UNCHANGED link
       ELSE pc' = "verify" /\ err' = "" /\ link' = NewLink(targetPath)
    /\ UNCHANGED <<root, rootOk, faults, argVars, versions, mode, toRemove,
                 selected, idx, removed, confirmed, resolved, switchVars,
                 fsBefore, codecVars,
                 sysVars, installVars, pcCleanup>>

\* VerifySwitch (lines 663-693) and the return of SwitchToVersion (581-587)
VerifySwitch ==
    /\ cmd = "switch" /\ pc = "verify"
    /\ IF link.kind = "none"
       THEN Finish("zig symlink not found") /\ UNCHANGED zigRun
       ELSE \E run \in ZigRuns(root, link) :
              /\ zigRun' = run
              /\ IF run.exit # 0 THEN Finish("failed to run 'zig version'")
                 ELSE IF ~Contains(TrimSpace(run.output), targetVersion)
                 THEN Finish("version mismatch")
                 ELSE Finish("")
    /\ UNCHANGED <<fsVars, argVars, versions, mode, toRemove, selected, idx,
                 removed, confirmed, resolved, targetVersion, targetPath,
                 fsBefore, codecVars,
                 sysVars, installVars, pcCleanup>>

InitSwitch ==
    /\ root \in SwitchRoots
    /\ rootOk \in (IF Present(root) = {} THEN BOOLEAN ELSE {TRUE})
    /\ link \in Links
    /\ faults \in SwitchFaultSets
    /\ cmd = "switch" /\ pc = "start"
    /\ targetVersion \in TargetVersions
    /\ targetPath = <<>> /\ zigRun = NoRun
    /\ versions = <<>> /\ err = ""
    /\ keepLast = 0 /\ dryRun = FALSE /\ autoYes = FALSE
    /\ autoCleanup = FALSE /\ mode = ""
    /\ toRemove = <<>> /\ selected = <<>> /\ idx = 0 /\ removed = {}
    /\ confirmed = "" /\ resolved = NotResolved
    /\ NoCodecState /\ StartsFrom(root, link)
    /\ NoDetectState /\ NoInstallState /\ NoRace

NextSwitch ==
    \/ SwitchStart
    \/ UpdateRemove
    \/ UpdateCreate
    \/ VerifySwitch

SpecSwitch == InitSwitch /\ [][NextSwitch]_vars

---------------------------------------------------------------------------
(* Claims about the switch (checked under SpecSwitch). *)

SwitchDone == cmd = "switch" /\ pc = "done"

\* SwitchToVersion found the version and called UpdateZigSymlink
UpdateCalled == cmd = "switch" /\ targetPath # <<>>

\* the link to the binary of the directory at path p
LinkTo(p) == [kind |-> "symlink", target |-> p \o <<"/","z","i","g">>]

\* the names whose directory holds the binary
WithBinary == {i \in Ids : root[i].kind = "dir" /\ root[i].files = FullLayout}

\* C13: UpdateZigSymlink for a version directory that lacks the binary
\* fails with "zig binary not found" and the active link is as it was when
\* the switch began: as absent, or with the same target.
C13_MissingBinaryLeavesLink ==
    (SwitchDone /\ UpdateCalled /\ IndexOfPath(targetPath) \notin WithBinary) =>
        /\ err = "zig binary not found"
        /\ link = fsBefore.link

\* the link pointed at another version, the target's directory is empty
C13_Witness ==
    /\ SwitchDone /\ UpdateCalled
    /\ root[IndexOfPath(targetPath)].files = <<>>
    /\ fsBefore.link.kind = "symlink"
    /\ fsBefore.link # LinkTo(targetPath)
    /\ err = "zig binary not found" /\ link = fsBefore.link

\* when the switch began the link pointed at the binary of an installed
\* directory of the version asked for
ActiveBefore ==
    \E i \in WithBinary :
        /\ fsBefore.link = LinkTo(PathOf(i))
        /\ EntryVersion[i] = targetVersion

\* `zig version` does not fail and does not print another version
VerificationPasses ==
    zigRun = NoRun \/ (zigRun.exit = 0 /\ zigRun.output # OtherOutput)

\* C14 as claimed: a switch to the version that is already active (its
\* directory holds the binary, the calls on the link do not fail, the
\* verification passes) returns no error and the link points at the binary
\* it pointed at.
C14_ReswitchSucceeds ==
    (SwitchDone /\ ActiveBefore /\ faults = {} /\ VerificationPasses) =>
        (err = "" /\ link = fsBefore.link)

\* the first record of the scan with the version asked for
FirstRecordOf(vs, version) ==
    vs[CHOOSE k \in 1..Len(vs) :
          /\ vs[k].Version = version
          /\ \A j \in 1..(k - 1) : vs[j].Version # version]

\* C14 amended: when the scan returns at least two records and the
\* directory of its first record of the version holds the binary, a switch
\* to the version that is already active is carried out in full: it
\* returns no error, `zig version` has been run through the recreated link,
\* and the link points at the binary of that first record, which is the
\* binary it pointed at when no other directory decodes to the version.
C14_ReswitchRelinks ==
    (/\ SwitchDone /\ ActiveBefore /\ faults = {} /\ VerificationPasses
     /\ Len(versions) >= 2
     /\ IndexOfPath(FirstRecordOf(versions, targetVersion).Path) \in WithBinary) =>
        /\ err = "" /\ zigRun.exit = 0
        /\ link = LinkTo(FirstRecordOf(versions, targetVersion).Path)
        /\ Cardinality({i \in Ids : root[i].kind = "dir"
                                     /\ EntryVersion[i] = targetVersion}) = 1
             => link = fsBefore.link

\* a switch to the active version, next to another version
C14_Witness ==
    /\ SwitchDone /\ ActiveBefore /\ faults = {}
    /\ Len(versions) = 2
    /\ versions[1].Version # versions[2].Version
    /\ zigRun.exit = 0 /\ err = ""
    /\ link = fsBefore.link

\* UpdateZigSymlink has returned nil
UpdateSucceeded == cmd = "switch" /\ (pc = "verify" \/ zigRun # NoRun)

\* C15: after UpdateZigSymlink returned nil for a version directory the
\* active link is a symbolic link to <versionPath>/zig.
C15_LinkNamesRequestedBinary == UpdateSucceeded => link = LinkTo(targetPath)

\* the link pointed at the binary of another directory before
C15_Witness ==
    /\ cmd = "switch" /\ pc = "verify"
    /\ fsBefore.link.kind = "symlink"
    /\ Dir(fsBefore.link.target) # targetPath
    /\ Dir(link.target) = targetPath

\* `zig version` exits non-zero or prints another version
VerificationFailed ==
    zigRun.exit = 1 \/ (zigRun.exit = 0 /\ zigRun.output = OtherOutput)

\* C16: when `zig version` exits non-zero or prints a version that does not
\* contain the version asked for, the switch returns an error and the
\* active link stays at the new target.
C16_FailedVerifyKeepsNewLink ==
    (SwitchDone /\ VerificationFailed) =>
        (err # "" /\ link = LinkTo(targetPath))

\* a mismatch, after the link was moved from another version
C16_Witness ==
    /\ SwitchDone /\ zigRun.exit = 0 /\ zigRun.output = OtherOutput
    /\ err = "version mismatch"
    /\ fsBefore.link.kind = "symlink"
    /\ link # fsBefore.link /\ link = LinkTo(targetPath)

\* no record of the scan has the version asked for
NotScanned == \A k \in 1..Len(versions) : versions[k].Version # targetVersion

\* C17: a switch to a version that is not among the scanned versions
\* returns an error, and the active link and the installation root are as
\* they were when the switch began.
C17_NotInstalledChangesNothing ==
    (SwitchDone /\ NotScanned) =>
        /\ err # ""
        /\ link = fsBefore.link
        /\ root = fsBefore.root

\* two versions installed and linked, the version asked for not among them
C17_Witness ==
    /\ SwitchDone /\ NotScanned
    /\ Len(versions) >= 2
    /\ fsBefore.link.kind = "symlink"
    /\ err = "version is not installed"
    /\ link = fsBefore.link

---------------------------------------------------------------------------
(* Specification of the path codec alone: extractVersionFromPath applied   *)
(* to the path of any entry name, as ScanInstalledVersions applies it.     *)

\* the characters of an entry name: a letter, the separator of the naming
\* convention, and the "+" of a development version
NameChars == {"a", "-", "+"}

EntryNames == UNION {[1..n -> NameChars] : n \in 1..MaxNameLen}

InitCodec ==
    /\ dirName \in EntryNames
    /\ decoded = <<>>
    /\ cmd = "decode" /\ pc = "start"
    /\ root = [i \in Ids |-> NoEntry] /\ rootOk = TRUE
    /\ link = NoLink /\ faults = {}
    /\ versions = <<>> /\ err = ""
    /\ keepLast = 0 /\ dryRun = FALSE /\ autoYes = FALSE
    /\ autoCleanup = FALSE /\ mode = ""
    /\ toRemove = <<>> /\ selected = <<>> /\ idx = 0 /\ removed = {}
    /\ confirmed = "" /\ resolved = NotResolved
    /\ NoSwitchState /\ StartsFrom(root, link)
    /\ NoDetectState /\ NoInstallState /\ NoRace

\* lines 120-121 of ScanInstalledVersions: path and version of an entry
Decode ==
    /\ cmd = "decode" /\ pc = "start"
    /\ decoded' = extractVersionFromPath(PathJoin(zigDir, dirName))
    /\ pc' = "decoded"
    /\ UNCHANGED <<fsVars, argVars, versions, err, mode, toRemove, selected,
                 idx, removed, confirmed, resolved, switchVars, fsBefore,
                 dirName, sysVars, installVars, pcCleanup>>

NextCodec == Decode

SpecCodec == InitCodec /\ [][NextCodec]_vars

---------------------------------------------------------------------------
(* Claims about the path codec (checked under SpecCodec). *)

Decoded == cmd = "decode" /\ pc = "decoded"

\* the positions of the hyphens of a name
Hyphens(s) == {k \in 1..Len(s) : s[k] = "-"}

\* the number of hyphen-delimited segments of a name
Segments(s) == Cardinality(Hyphens(s)) + 1

\* the position of the third hyphen of a name of at least four segments
ThirdHyphen(s) ==
    CHOOSE t \in Hyphens(s) : Cardinality({k \in Hyphens(s) : k < t}) = 2

\* C19: a name of fewer than four hyphen-delimited segments decodes to the
\* empty version (the codec has no error result).
C19_ShortNameDecodesEmpty ==
    (Decoded /\ Segments(dirName) < 4) => decoded = <<>>

\* three non-empty segments
C19_Witness ==
    /\ Decoded /\ Segments(dirName) = 3
    /\ dirName[1] = "a" /\ dirName[Len(dirName)] = "a"
    /\ decoded = <<>>

\* C20: for a name of at least four segments, its first three segments
\* (the name up to its third hyphen) joined by a hyphen with what it
\* decodes to give the name back.
C20_RoundTrip ==
    (Decoded /\ Segments(dirName) >= 4) =>
        SubSeq(dirName, 1, ThirdHyphen(dirName) - 1) \o <<"-">> \o decoded
            = dirName

\* a version that holds a hyphen and a plus sign, after three non-empty
\* segments
C20_Witness ==
    /\ Decoded /\ Segments(dirName) >= 5
    /\ Len(dirName) > 6
    /\ SubSeq(dirName, 1, 6) = <<"a","-","a","-","a","-">>
    /\ \E k \in 1..Len(decoded) : decoded[k] = "+"
    /\ \E k \in 1..Len(decoded) : decoded[k] = "-"
    /\ decoded # <<>>

---------------------------------------------------------------------------
(* The detector of a system-wide installation: DetectSystemInstallation    *)
(* of internal/config, on Linux.                                           *)

\* GetSystemZigDirs, default case (linux)
GetSystemZigDirs == << <<"/","o","p","t","/","z","i","g">>,
                       <<"/","u","s","r","/","l","o","c","a","l","/","z","i","g">> >>

\* systemBinLinks
systemBinLinks == << <<"/","u","s","r","/","l","o","c","a","l","/","b","i","n","/","z","i","g">>,
                     <<"/","u","s","r","/","l","o","c","a","l","/","b","i","n","/","z","l","s">> >>

\* what a path of GetSystemZigDirs can be: nothing, a file, an empty
\* directory, a directory with entries, or a directory with entries that
\* os.ReadDir cannot list
SysDirKinds == {"none", "file", "emptydir", "dir", "unlistable"}

\* the targets a legacy link can have: under /opt/, under /usr/local/,
\* under a directory whose name only begins with "opt", and elsewhere
SysTargetOpt == <<"/","o","p","t","/","z","i","g","/","z","i","g">>
SysTargetUsrLocal == <<"/","u","s","r","/","l","o","c","a","l","/","z","i","g","/","z","l","s">>
SysLinkTargets == { SysTargetOpt, SysTargetUsrLocal,
                    <<"/","o","p","t","x","/","z","i","g">>,
                    <<"/","h","o","m","e","/","z","i","g">> }

SysLinks == {NoLink, [kind |-> "file", target |-> <<>>]}
                \cup [kind : {"symlink"}, target : SysLinkTargets]

\* faulty variant: an empty directory counts as an installation
DirMatches_EmptyToo(d) == d \in {"emptydir", "dir"}

\* lines 63-68: os.Stat succeeds on a directory, os.ReadDir succeeds and
\* returns entries
DirMatches(d) == d = "dir"

\* lines 75-83: os.Lstat and os.Readlink succeed and the target starts with
\* "/opt/" or "/usr/local/"
LinkMatches(l) ==
    /\ l.kind = "symlink"
    /\ \/ HasPrefix(l.target, <<"/","o","p","t","/">>)
       \/ HasPrefix(l.target, <<"/","u","s","r","/","l","o","c","a","l","/">>)

\* lines 62-70: the first directory that matches, 0 when none does
RECURSIVE FirstSystemDir(_, _)
FirstSystemDir(dirs, k) ==
    IF k > Len(dirs) THEN 0
    ELSE IF DirMatches(dirs[k]) THEN k
    ELSE FirstSystemDir(dirs, k + 1)

\* lines 74-85: the first link that matches, 0 when none does
RECURSIVE FirstSystemLink(_, _)
FirstSystemLink(links, k) ==
    IF k > Len(links) THEN 0
    ELSE IF LinkMatches(links[k]) THEN k
    ELSE FirstSystemLink(links, k + 1)

DetectSystemInstallation(dirs, links) ==
    LET d == FirstSystemDir(dirs, 1)
        l == FirstSystemLink(links, 1)
    IN
    IF d # 0 THEN [path |-> GetSystemZigDirs[d], found |-> TRUE]
    ELSE IF l # 0 THEN [path |-> Dir(links[l].target), found |-> TRUE]
    ELSE [path |-> <<>>, found |-> FALSE]

InitDetect ==
    /\ sysDirs \in [1..Len(GetSystemZigDirs) -> SysDirKinds]
    /\ sysLinks \in [1..Len(systemBinLinks) -> SysLinks]
    /\ detected = NotDetected
    /\ cmd = "detect" /\ pc = "start"
    /\ root = [i \in Ids |-> NoEntry] /\ rootOk = TRUE
    /\ link = NoLink /\ faults = {}
    /\ versions = <<>> /\ err = ""
    /\ keepLast = 0 /\ dryRun = FALSE /\ autoYes = FALSE
    /\ autoCleanup = FALSE /\ mode = ""
    /\ toRemove = <<>> /\ selected = <<>> /\ idx = 0 /\ removed = {}
    /\ confirmed = "" /\ resolved = NotResolved
    /\ NoSwitchState /\ NoCodecState /\ fsBefore = [root |-> root, link |-> link]
    /\ NoInstallState /\ NoRace

Detect ==
    /\ cmd = "detect" /\ pc = "start"
    /\ detected' = DetectSystemInstallation(sysDirs, sysLinks)
    /\ pc' = "detected"
    /\ UNCHANGED <<fsVars, argVars, versions, err, mode, toRemove, selected,
                 idx, removed, confirmed, resolved, switchVars, fsBefore,
                 codecVars, sysDirs, sysLinks, installVars, pcCleanup>>

NextDetect == Detect

SpecDetect == InitDetect /\ [][NextDetect]_vars

---------------------------------------------------------------------------
(* Claims about the detector (checked under SpecDetect). *)

DetectDone == cmd = "detect" /\ pc = "detected"

\* C21: whenever the detector reports an installation, one of the
\* directories of GetSystemZigDirs exists (os.Stat of it succeeds).
C21_FoundImpliesDirExists ==
    (DetectDone /\ detected.found) =>
        \E k \in 1..Len(sysDirs) : sysDirs[k] # "none"

\* the directories with entries
NonEmptyDirs == {k \in 1..Len(sysDirs) : sysDirs[k] \in {"dir", "unlistable"}}

\* the directories with entries that can be listed
ListedDirs == {k \in 1..Len(sysDirs) : sysDirs[k] = "dir"}

\* the legacy links whose target is rooted under /opt/ or /usr/local/
SuggestiveLinks ==
    {k \in 1..Len(sysLinks) :
        /\ sysLinks[k].kind = "symlink"
        /\ sysLinks[k].target \in {SysTargetOpt, SysTargetUsrLocal}}

\* the least element of a non-empty set of indices
First(S) == CHOOSE k \in S : \A j \in S : k <= j

\* C22 as claimed: the detector reports an installation exactly when a
\* system directory is a non-empty directory or a legacy link is rooted
\* under /opt/ or /usr/local/.
C22_FoundExactly ==
    DetectDone =>
        (detected.found <=> (NonEmptyDirs # {} \/ SuggestiveLinks # {}))

\* C22 amended: the detector reports an installation exactly when a system
\* directory is a non-empty directory that can be listed, or a legacy link
\* is rooted under /opt/ or /usr/local/, whether or not its target exists;
\* it returns the first such directory, else the directory of the target of
\* the first such link, else nothing.
C22_FoundExactlyListed ==
    DetectDone =>
        /\ detected.found <=> (ListedDirs # {} \/ SuggestiveLinks # {})
        /\ ListedDirs # {} =>
              detected.path = GetSystemZigDirs[First(ListedDirs)]
        /\ (ListedDirs = {} /\ SuggestiveLinks # {}) =>
              detected.path \o <<"/">> \o Base(sysLinks[First(SuggestiveLinks)].target)
                  = sysLinks[First(SuggestiveLinks)].target
        /\ (ListedDirs = {} /\ SuggestiveLinks = {}) => detected.path = <<>>

\* no system directory exists, the first legacy link is a file, the second
\* a link into /usr/local/zig, which is missing
C22_Witness ==
    /\ DetectDone /\ detected.found
    /\ \A k \in 1..Len(sysDirs) : sysDirs[k] = "none"
    /\ sysLinks[1].kind = "file"
    /\ sysLinks[2].kind = "symlink"
    /\ detected.path = GetSystemZigDirs[2]

---------------------------------------------------------------------------
(* Two invocations on one installation root: `switch <version>` and        *)
(* `cleanup --keep-last N --yes`. Nothing locks the root, so the steps of   *)
(* the two interleave freely; pc is the position of the switch and          *)
(* pcCleanup the position of the cleanup.                                   *)

\* the roots of the race: version directories that hold the binary
RaceRoots ==
    {r \in [Ids -> {NoEntry} \cup DirEntries({FullLayout})] :
        Cardinality(Present(r)) <= MaxEntries}

\* CleanupCommand and cleanupWithKeepLast up to RemoveVersions, with --yes
RaceCleanupStart ==
    /\ pcCleanup = "start"
    /\ \E s \in {ScanInstalledVersions(root, rootOk, link, faults)} :
       \E rm \in {filterVersionsToKeep(s.versions, keepLast)} :
       IF s.err # "" THEN pcCleanup' = "failed" /\ UNCHANGED <<toRemove, selected, idx>>
       ELSE IF Len(s.versions) = 0 \/ NonActive(s.versions) = {} \/ Len(rm) = 0
       THEN pcCleanup' = "done" /\ UNCHANGED <<toRemove, selected, idx>>
       ELSE /\ toRemove' = rm
            /\ selected' = VersionNames(rm)
            /\ idx' = 1
            /\ pcCleanup' = "remove"
    /\ UNCHANGED <<fsVars, argVars, versions, err, pc, mode, removed,
                 confirmed, resolved, switchVars, fsBefore, codecVars,
                 sysVars, installVars>>

\* RemoveVersions in the concurrent cleanup: one round, and its return
RaceRemoveNext ==
    /\ pcCleanup = "remove"
    /\ \E result \in RemoveResults :
          /\ RemoveRound(result)
          /\ pcCleanup' = IF result = "next" THEN "remove"
                          ELSE IF result = "return" THEN "done" ELSE "failed"
    /\ UNCHANGED <<rootOk, link, faults, argVars, versions, err, pc, mode, toRemove,
                 selected, confirmed, resolved, switchVars, fsBefore, codecVars,
                 sysVars, installVars>>

InitRace ==
    /\ root \in RaceRoots /\ rootOk = TRUE
    /\ link \in {NoLink} \cup {LinkTo(PathOf(i)) : i \in {2, 3}}
    /\ faults = {}
    /\ cmd = "switch" /\ pc = "start"
    /\ targetVersion \in TargetVersions
    /\ targetPath = <<>> /\ zigRun = NoRun
    /\ versions = <<>> /\ err = ""
    /\ keepLast \in 1..MaxKeep /\ dryRun = FALSE /\ autoYes = TRUE
    /\ autoCleanup = FALSE /\ mode = ""
    /\ toRemove = <<>> /\ selected = <<>> /\ idx = 0 /\ removed = {}
    /\ confirmed = "" /\ resolved = NotResolved
    /\ NoCodecState /\ StartsFrom(root, link)
    /\ NoDetectState /\ NoInstallState
    /\ pcCleanup = "start"

NextRace ==
    \/ SwitchStart
    \/ UpdateRemove
    \/ UpdateCreate
    \/ VerifySwitch
    \/ RaceCleanupStart
    \/ RaceRemoveNext

SpecRace == InitRace /\ [][NextRace]_vars

---------------------------------------------------------------------------
(* Claims about the two invocations (checked under SpecRace). *)

\* the versions the cleanup planned to remove
PlannedVersions == {selected[k] : k \in 1..Len(selected)}

\* the active link names the binary of the switch's target, and the
\* directory of that target is not there
DanglingAfterSwitch ==
    /\ SwitchDone /\ UpdateCalled
    /\ link = LinkTo(targetPath)
    /\ root[IndexOfPath(targetPath)].kind # "dir"

\* C23: nothing excludes a cleanup and a switch from one root. When the
\* switch has completed and its link dangles, the cleanup planned the
\* removal of the switch's version and has deleted the directory the link
\* points into; such a state is reachable, also with a switch that reported
\* success.
C23_DanglingOnlyByCleanup ==
    DanglingAfterSwitch =>
        /\ targetVersion \in PlannedVersions
        /\ targetPath \in removed
        /\ fsBefore.root[IndexOfPath(targetPath)].kind = "dir"

\* the switch verified the new link and returned no error, the cleanup has
\* returned too, and the link points into the directory it deleted
C23_Witness ==
    /\ DanglingAfterSwitch
    /\ err = "" /\ zigRun.exit = 0
    /\ pcCleanup = "done"
    /\ targetVersion \in PlannedVersions
    /\ targetPath \in removed

---------------------------------------------------------------------------
(* Claims about RemoveVersions (checked under Spec). *)

\* RemoveVersions returned the error of os.RemoveAll
RemovalFailed == pc = "done" /\ err = "failed to remove"

\* the directory whose removal failed: idx is the round that failed
FailedAt == DirToRemove(root, selected[idx], 1)

\* C25: RemoveVersions goes through the versions in order and rolls nothing
\* back. When the removal of a version's directory fails it returns the
\* error at once: the directories removed in the rounds before stay
\* removed, the directory that failed is still there, and every other entry
\* of the root is as it was when the command began.
C25_NoRollback ==
    RemovalFailed =>
        /\ idx \in 1..Len(selected)
        /\ FailedAt # 0
        /\ root[FailedAt].kind = "dir"
        /\ Cardinality(removed) <= idx - 1
        /\ \A p \in removed :
              /\ root[IndexOfPath(p)] = NoEntry
              /\ fsBefore.root[IndexOfPath(p)].kind = "dir"
              /\ \E k \in 1..(idx - 1) : EntryVersion[IndexOfPath(p)] = selected[k]
        /\ \A i \in Ids :
              (PathOf(i) \notin removed /\ i # FailedAt) => root[i] = fsBefore.root[i]

\* the second of three removals failed: one directory is gone, the
\* directory of the third version is still there
C25_Witness ==
    /\ RemovalFailed
    /\ Len(selected) = 3 /\ idx = 2
    /\ Cardinality(removed) = 1
    /\ \E i \in Ids : /\ i # FailedAt
                      /\ root[i].kind = "dir"
                      /\ EntryVersion[i] = selected[3]

\* the paths of the records planned for removal
PlannedPaths == {toRemove[k].Path : k \in 1..Len(toRemove)}

\* RemoveVersions went through its list and returned nil
RemovalReturnedNil ==
    /\ pc = "done" /\ err = ""
    /\ selected # <<>> /\ idx = Len(selected) + 1

\* C28: with --keep-last, RemoveVersions deletes exactly the directories
\* the scan reported for the planned records: every directory it deletes is
\* the path of a planned record, and once it has returned nil no planned
\* record's directory is left.
C28_RemovesPlannedDirectories ==
    mode = "keeplast" =>
        /\ removed \subseteq PlannedPaths
        /\ RemovalReturnedNil =>
              \A p \in PlannedPaths : root[IndexOfPath(p)].kind # "dir"

---------------------------------------------------------------------------
(* Claims about the replacement of the active link (checked under          *)
(* SpecSwitch).                                                            *)

RemoveFails == [op |-> "remove", at |-> 0] \in faults
CreateFails == [op |-> "symlink", at |-> 0] \in faults

\* UpdateZigSymlink was called for a directory that holds the binary
ReplacementBegan ==
    SwitchDone /\ UpdateCalled /\ IndexOfPath(targetPath) \in WithBinary

\* C26: the replacement of the link is not transactional. When the old link
\* was removed and the creation of the new link fails, the switch returns
\* "could not create symbolic link" and there is no active link: the old
\* target is not restored. When the removal of the old link fails, the
\* switch returns "could not remove existing symlink" and the old link is
\* in place.
C26_LinkReplacementNotTransactional ==
    /\ (ReplacementBegan /\ CreateFails /\ ~(RemoveFails /\ fsBefore.link # NoLink)) =>
          (err = "could not create symbolic link" /\ link = NoLink)
    /\ (ReplacementBegan /\ RemoveFails /\ fsBefore.link # NoLink) =>
          (err = "could not remove existing symlink" /\ link = fsBefore.link)
    /\ (SwitchDone /\ err = "could not create symbolic link") => link = NoLink
    /\ (SwitchDone /\ err = "could not remove existing symlink") =>
          (link = fsBefore.link /\ link # NoLink)

\* the switch began with a link to a version, removed it, and failed to
\* create the new one
C26_Witness ==
    /\ ReplacementBegan
    /\ fsBefore.link.kind = "symlink"
    /\ err = "could not create symbolic link"
    /\ link = NoLink

---------------------------------------------------------------------------
(* The installation: InstallZig of zig.go, one action per external command  *)
(* or filesystem call, followed by runInstallation's call of                *)
(* AutoCleanupPrompt with --auto-cleanup --keep-last N.                     *)

\* the versions that can be asked for
InstallVersions == { <<"0",".","1","2",".","0">>, <<"0",".","1","3",".","0">> }

\* line 168: the directory the archive of a version unpacks to
ExtractedDir(version) ==
    CHOOSE i \in Ids : DirNames[i] = <<"z","i","g","-","l","-","x","-">> \o version

\* what `zig version` of the zig on PATH does: it fails (no zig on PATH), or
\* prints a version
PathRuns ==
    {[exit |-> 1, output |-> <<>>]}
        \cup [exit : {0}, output : {v \o <<"\n">> : v \in InstallVersions}]

\* isZigInstalled (utils.go lines 90-107)
isZigInstalled(version, run) ==
    IF run.exit # 0 THEN FALSE
    ELSE LET installedVersion == TrimSpace(run.output) IN
         IF version = <<"m","a","s","t","e","r">>
         THEN Contains(installedVersion, <<"-","d","e","v",".">>)
         ELSE HasPrefix(installedVersion, version)

\* faulty variant: the result of minisign is not looked at
SignatureAccepted_Always(good) == TRUE

\* line 140: minisign exited with status 0
SignatureAccepted(good) == good

\* the active links an installation can start from
InstallLinks ==
    {NoLink, LinkTo(PathOf(2)), LinkTo(PathOf(3)),
     [kind |-> "symlink", target |-> <<"/","u","s","r","/","b","i","n","/","z","i","g">>]}

\* zig.go lines 58-85: the version is looked up and, when the zig on PATH
\* reports it, InstallZig returns it at once
InstallStart ==
    /\ cmd = "install" /\ pc = "start"
    /\ \E fetched \in BOOLEAN : \E run \in PathRuns :
          IF ~fetched
          THEN Finish("could not fetch version") /\ UNCHANGED zigRun
          ELSE /\ zigRun' = run
               /\ err' = ""
               /\ pc' = IF isZigInstalled(targetVersion, run)
                        THEN "installed" ELSE "download"
    /\ UNCHANGED <<fsVars, argVars, versions, mode, toRemove, selected, idx,
                 removed, confirmed, resolved, targetVersion, targetPath,
                 fsBefore, codecVars, sysVars, installVars, pcCleanup>>

\* wget -O: the file is complete, or the command fails and leaves no file
\* or a partial one
WgetOutcomes == {"ok", "failed", "partial"}

\* lines 104-121: the archive is downloaded
InstallDownload ==
    /\ cmd = "install" /\ pc = "download"
    /\ \E outcome \in WgetOutcomes :
          /\ downloads' = IF outcome = "failed" THEN downloads
                          ELSE downloads \cup {"tar"}
          /\ IF outcome = "ok" THEN pc' = "downloadsig" /\ err' = ""
             ELSE Finish("could not download Zig")
    /\ UNCHANGED <<fsVars, argVars, versions, mode, toRemove, selected, idx,
                 removed, confirmed, resolved, switchVars,
                 fsBefore, codecVars, sysVars, signature, pcCleanup>>

\* lines 123-137: the signature is downloaded
InstallDownloadSig ==
    /\ cmd = "install" /\ pc = "downloadsig"
    /\ \E outcome \in WgetOutcomes :
          /\ downloads' = IF outcome = "failed" THEN downloads
                          ELSE downloads \cup {"sig"}
          /\ IF outcome = "ok" THEN pc' = "verify" /\ err' = ""
             ELSE Finish("could not download Zig signature")
    /\ UNCHANGED <<fsVars, argVars, versions, mode, toRemove, selected, idx,
                 removed, confirmed, resolved, switchVars,
                 fsBefore, codecVars, sysVars, signature, pcCleanup>>

\* lines 139-153: minisign -Vm; on failure both files are removed
InstallVerify ==
    /\ cmd = "install" /\ pc = "verify"
    /\ \E good \in BOOLEAN :
          /\ signature' = IF good THEN "good" ELSE "bad"
          /\ IF SignatureAccepted(good)
             THEN /\ downloads' = downloads \ {"sig"}
                  /\ pc' = "extract" /\ err' = ""
             ELSE /\ downloads' = downloads \ {"tar", "sig"}
                  /\ Finish("signature verification failed")
    /\ UNCHANGED <<fsVars, argVars, versions, mode, toRemove, selected, idx,
                 removed, confirmed, resolved, switchVars,
                 fsBefore, codecVars, sysVars, pcCleanup>>

\* tar -xf: the directory is unpacked with the dates of the archive, or the
\* command fails before or after it made the directory
TarOutcomes == {"ok", "failed", "partial"}

\* lines 155-168: the archive is unpacked into the root and removed
InstallExtract ==
    /\ cmd = "install" /\ pc = "extract"
    /\ \E outcome \in TarOutcomes : \E t \in 1..MaxTime :
       LET i == ExtractedDir(targetVersion) IN
          IF outcome = "ok"
          THEN /\ root' = [root EXCEPT ![i] =
                              [kind |-> "dir", mtime |-> t, files |-> FullLayout]]
               /\ downloads' = downloads \ {"tar"}
               /\ targetPath' = PathOf(i)
               /\ pc' = "link" /\ err' = ""
          ELSE /\ root' = IF outcome = "partial" /\ root[i].kind = "none"
                          THEN [root EXCEPT ![i] =
                                   [kind |-> "dir", mtime |-> t, files |-> <<>>]]
                          ELSE root
               /\ Finish("extraction failed")
               /\ UNCHANGED <<downloads, targetPath>>
    /\ UNCHANGED <<rootOk, link, faults, argVars, versions, mode, toRemove,
                 selected, idx, removed, confirmed, resolved, targetVersion,
                 zigRun, fsBefore, codecVars, sysVars, signature, pcCleanup>>

\* lines 175-181: the old link is removed
InstallRemoveLink ==
    /\ cmd = "install" /\ pc = "link"
    /\ IF ~LinkExists(root, link)
       THEN pc' = "createlink" /\ err' = "" /\ UNCHANGED link
       ELSE \E removes \in BOOLEAN :
              IF removes
              THEN pc' = "createlink" /\ err' = "" /\ link' = RemoveLink(link)
              ELSE Finish("could not remove existing symlink") /\ UNCHANGED link
    /\ UNCHANGED <<root, rootOk, faults, argVars, versions, mode, toRemove,
                 selected, idx, removed, confirmed, resolved, switchVars,
                 fsBefore, codecVars, sysVars, installVars, pcCleanup>>

\* lines 183-190: the new link is created and InstallZig returns the version
InstallCreateLink ==
    /\ cmd = "install" /\ pc = "createlink"
    /\ \E creates \in BOOLEAN :
          IF creates /\ link.kind = "none"
          THEN pc' = "installed" /\ err' = "" /\ link' = NewLink(targetPath)
          ELSE Finish("could not create symbolic link") /\ UNCHANGED link
    /\ UNCHANGED <<root, rootOk, faults, argVars, versions, mode, toRemove,
                 selected, idx, removed, confirmed, resolved, switchVars,
                 fsBefore, codecVars, sysVars, installVars, pcCleanup>>

\* runInstallation (env.go lines 194-216): InstallZig returned a version and
\* AutoCleanupPrompt is called
AfterInstall ==
    /\ cmd = "install" /\ pc = "installed"
    /\ cmd' = "autoprompt" /\ pc' = "start"
    /\ fsBefore' = [root |-> root, link |-> link]
    /\ UNCHANGED <<fsVars, keepLast, dryRun, autoYes, autoCleanup, versions,
                 err, mode, toRemove, selected, idx, removed, confirmed,
                 resolved, switchVars, codecVars, sysVars, installVars,
                 pcCleanup>>

InitInstall ==
    /\ root \in RaceRoots /\ rootOk = TRUE
    /\ link \in InstallLinks
    /\ faults = {}
    /\ cmd = "install" /\ pc = "start"
    /\ targetVersion \in InstallVersions
    /\ targetPath = <<>> /\ zigRun = NoRun
    /\ versions = <<>> /\ err = ""
    /\ keepLast \in 1..MaxKeep /\ dryRun = FALSE /\ autoYes = FALSE
    /\ autoCleanup = TRUE /\ mode = ""
    /\ toRemove = <<>> /\ selected = <<>> /\ idx = 0 /\ removed = {}
    /\ confirmed = "" /\ resolved = NotResolved
    /\ NoCodecState /\ StartsFrom(root, link)
    /\ NoDetectState /\ NoInstallState /\ NoRace

NextInstall ==
    \/ InstallStart
    \/ InstallDownload
    \/ InstallDownloadSig
    \/ InstallVerify
    \/ InstallExtract
    \/ InstallRemoveLink
    \/ InstallCreateLink
    \/ AfterInstall
    \/ AutoCleanupStart
    \/ RemoveNext

SpecInstall == InitInstall /\ [][NextInstall]_vars

---------------------------------------------------------------------------
(* Claims about the installation (checked under SpecInstall). *)

\* InstallZig is running or has returned; AutoCleanupPrompt has not begun
Installing == cmd = "install"

C30_ReportedVersionSurvives ==
    (cmd = "autoprompt" /\ fsBefore.root[ExtractedDir(targetVersion)].kind = "dir") =>
        root[ExtractedDir(targetVersion)].kind = "dir"

---------------------------------------------------------------------------
(* Claims about a switch that starts from a dangling link (checked under   *)
(* SpecSwitch).                                                            *)

\* when the switch began the active link pointed into a version directory
\* that is not there
DanglingBefore ==
    \E i \in Ids : /\ fsBefore.link = LinkTo(PathOf(i))
                   /\ fsBefore.root[i].kind # "dir"

\* a version directory the scan reports decodes to the version asked for
\* and holds the binary
TargetInstalled ==
    \E i \in WithBinary \cap Recognizable(root) : EntryVersion[i] = targetVersion

\* the scan that follows the switch
FollowingScan == ScanInstalledVersions(root, rootOk, link, faults)

\* the following scan marks the records of the version asked for, and no
\* others
MarkedActive ==
    /\ FollowingScan.err = ""
    /\ \E k \in 1..Len(FollowingScan.versions) : FollowingScan.versions[k].IsCurrent
    /\ \A k \in 1..Len(FollowingScan.versions) :
          FollowingScan.versions[k].IsCurrent
              <=> FollowingScan.versions[k].Version = targetVersion

\* C29 as claimed: from a dangling active link, a switch to an installed
\* version whose binary exists succeeds (the calls on the link do not fail,
\* the verification passes), and a following scan marks the version active.
C29_RecoversFromDangling ==
    (SwitchDone /\ DanglingBefore /\ TargetInstalled /\ faults = {}
        /\ VerificationPasses) =>
        (err = "" /\ link.kind = "symlink" /\ MarkedActive)

\* C29 amended: from a dangling active link, when the scan returns at least
\* two records and the directory of its first record of the version asked
\* for holds the binary, the switch removes the dangling link, creates the
\* link to that record's binary, verifies it and returns no error, and a
\* following scan marks the version active.
C29_RecoversAmongSeveral ==
    (/\ SwitchDone /\ DanglingBefore /\ faults = {} /\ VerificationPasses
     /\ Len(versions) >= 2
     /\ \E k \in 1..Len(versions) : versions[k].Version = targetVersion
     /\ IndexOfPath(FirstRecordOf(versions, targetVersion).Path) \in WithBinary) =>
        /\ err = "" /\ zigRun.exit = 0
        /\ link = LinkTo(FirstRecordOf(versions, targetVersion).Path)
        /\ MarkedActive

\* the link pointed into a deleted directory and now points at the binary
\* of the version asked for, one of two installed
C29_Witness ==
    /\ SwitchDone /\ DanglingBefore
    /\ Len(versions) = 2
    /\ err = "" /\ zigRun.exit = 0
    /\ link = LinkTo(targetPath)
    /\ MarkedActive

=============================================================================
